---- MODULE Spec2Model ----
(***************************************************************************)
(* Model of backend_server.py: the MLFakeAccountDetector (lazy training,   *)
(* feature extraction, risk tiers, rule explanations), the /api/analyze    *)
(* handler and the local "blockchain" ledger.                              *)
(*                                                                         *)
(* Conventions                                                             *)
(*   - a Python str is a sequence of one-character strings;                *)
(*   - a JSON value is a tagged record [t |-> kind, v |-> value];          *)
(*   - a JSON object (the request payload) is a function whose DOMAIN is   *)
(*     the set of keys that are present;                                   *)
(*   - a probability is an integer number of 1e-5 units (0 .. 100000).     *)
(***************************************************************************)
EXTENDS Integers, Sequences, FiniteSets, TLC

VARIABLES
    is_trained,          \* MLFakeAccountDetector.is_trained
    tfidf_vectorizer,    \* the shared TfidfVectorizer object
    scaler,              \* the shared StandardScaler object
    profile_classifier,  \* self.profile_classifier: which classifier object
    classifiers,         \* the RandomForestClassifier objects created so far
    clf_memo,            \* what the fitted pipeline answers per input
    threads,             \* the threads of this process
    pc,                  \* each thread's position
    inbox,               \* requests not yet received, per request thread
    data,                \* request.json of the request being handled
    saw_untrained,       \* line 237 read is_trained = False
    features,            \* extract_features' dict
    bio_text,            \* extract_features' bio
    fake_probability,    \* line 263
    analysis_result,     \* predict_fake_probability's return value
    blockchain_result,   \* analyze_account's blockchain_result
    fit_target,          \* the classifier object a thread's fit() works on
    train_calls,         \* how many times train_model was entered
    entered_ready,       \* train_model was entered while is_trained was True
    ledger,              \* rows of fake_account_reports
    responses,           \* the HTTP responses each request thread has sent
    risk_in,             \* a probability handed to get_risk_level
    risk_out,            \* what get_risk_level returned for it
    fake_data,           \* generate_training_data's fake_data list
    real_data,           \* generate_training_data's real_data list
    df,                  \* the frame generate_training_data returns
    record_call,         \* the last record_to_blockchain call and its result
    records_out,         \* the last response of /api/blockchain/records
    stats_out            \* the last response of /api/stats

vars == <<is_trained, tfidf_vectorizer, scaler, profile_classifier, classifiers,
          clf_memo, threads, pc, inbox, data, saw_untrained, features, bio_text,
          fake_probability, analysis_result, blockchain_result, fit_target,
          train_calls, entered_ready, ledger, responses, risk_in, risk_out,
          fake_data, real_data, df, record_call, records_out, stats_out>>

----------------------------------------------------------------------------
(* Bounds of the model *)

\* request threads of the server
NumRequests == 1

\* how often the sequential host calls analyze with the same record
MaxCalls == 2

\* half the number of synthetic examples (n_samples = 1000 in the code)
HalfSamples == 2

\* calls of record_to_blockchain
MaxRows == 3

----------------------------------------------------------------------------
(* Program constants *)

\* get_risk_level: probability >= 0.7
HIGH_THRESHOLD == 70000

\* get_statistics: WHERE risk_score >= 0.7
STATS_HIGH == 70000

\* get_blockchain_records: LIMIT 50
RECORDS_LIMIT == 50

\* get_risk_level: probability >= 0.4
MEDIUM_THRESHOLD == 40000

\* analyze_account: analysis_result['fake_probability'] >= 0.4
LEDGER_THRESHOLD == 40000

\* 1.0 in probability units
ProbOne == 100000

\* features['username_digits'] >= 4
MANY_DIGITS == 4

\* features['bio_length'] < 20
SHORT_BIO == 20

\* features['account_age_days'] < 30
RECENT_DAYS == 30

\* ratio > 5
RATIO_HIGH == 5

\* ratio < 0.1, i.e. 10 * followers < following
RATIO_LOW_INV == 10

----------------------------------------------------------------------------
(* JSON values *)

JInt(n) == [t |-> "int", v |-> n]

JStr(s) == [t |-> "str", v |-> s]

JBool(b) == [t |-> "bool", v |-> b]

JNull == [t |-> "null", v |-> 0]

\* the value a numeric consumer (numpy, comparison) sees
Num(x) == IF x.t = "bool" THEN (IF x.v THEN 1 ELSE 0) ELSE x.v

IsNumeric(x) == x.t \in {"int", "bool"}

\* Python truthiness, as `1 if account_data.get('profile_picture') else 0` uses it
Truthy(x) ==
    CASE x.t = "null" -> FALSE
      [] x.t = "bool" -> x.v
      [] x.t = "int"  -> x.v # 0
      [] x.t = "str"  -> Len(x.v) > 0

\* dict.get(key, default)
Get(d, key, default) == IF key \in DOMAIN d THEN d[key] ELSE default

----------------------------------------------------------------------------
(* Python str operations *)

UPPER == <<"A", "B", "C", "D", "E", "F", "G", "H", "I", "J", "K", "L", "M",
           "N", "O", "P", "Q", "R", "S", "T", "U", "V", "W", "X", "Y", "Z">>

LOWER == <<"a", "b", "c", "d", "e", "f", "g", "h", "i", "j", "k", "l", "m",
           "n", "o", "p", "q", "r", "s", "t", "u", "v", "w", "x", "y", "z">>

LowerChar(c) ==
    IF \E i \in 1..Len(UPPER) : UPPER[i] = c
    THEN LOWER[CHOOSE i \in 1..Len(UPPER) : UPPER[i] = c]
    ELSE c

\* the text as it is
Lower_identity(s) == s

\* str.lower()
Lower(s) == [i \in 1..Len(s) |-> LowerChar(s[i])]

\* c.isdigit()
IsDigit(c) == c \in {"0", "1", "2", "3", "4", "5", "6", "7", "8", "9"}

\* sum(c.isdigit() for c in username)
CountDigits(s) == Cardinality({i \in 1..Len(s) : IsDigit(s[i])})

\* keyword in text
Contains(text, keyword) ==
    \E i \in 1..(Len(text) - Len(keyword) + 1) :
        SubSeq(text, i, i + Len(keyword) - 1) = keyword

----------------------------------------------------------------------------
(* get_risk_level *)

get_risk_level_strict(probability) ==
    IF probability > HIGH_THRESHOLD THEN "high"
    ELSE IF probability > MEDIUM_THRESHOLD THEN "medium"
    ELSE "low"

get_risk_level(probability) ==
    IF probability >= HIGH_THRESHOLD THEN "high"
    ELSE IF probability >= MEDIUM_THRESHOLD THEN "medium"
    ELSE "low"

----------------------------------------------------------------------------
(* get_feature_explanation *)

suspicious_keywords ==
    << <<"f", "o", "l", "l", "o", "w", " ", "b", "a", "c", "k">>,
       <<"f", "o", "l", "l", "o", "w", "4", "f", "o", "l", "l", "o", "w">>,
       <<"d", "m", " ", "f", "o", "r", " ", "c", "o", "l", "l", "a", "b">> >>

EXPL_DIGITS == "Username contains many digits"

EXPL_BIO == "Bio is very short or empty"

EXPL_PIC == "No profile picture"

EXPL_RECENT == "Recently created account"

EXPL_RATIO == "Unusual follower-to-following ratio"

EXPL_KEYWORDS == "Bio contains suspicious keywords"

\* ratio = followers / following; ratio > 5 or ratio < 0.1, for following > 0.
\* On the integers of the model the float comparison is exact:
\* followers/following > 5 iff followers > 5*following, and
\* followers/following < 0.1 iff 10*followers < following.
UnusualRatio(followers, following) ==
    following > 0 /\ (followers > RATIO_HIGH * following
                      \/ RATIO_LOW_INV * followers < following)

\* one string for every keyword found instead of one for the rule
get_feature_explanation_per_keyword(f, bio) ==
    LET when(cond, text) == IF cond THEN <<text>> ELSE <<>>
        lowered == Lower(bio)
        found(k) == when(Contains(lowered, suspicious_keywords[k]), EXPL_KEYWORDS)
    IN  when(Num(f.username_digits) >= MANY_DIGITS, EXPL_DIGITS)
        \o when(Num(f.bio_length) < SHORT_BIO, EXPL_BIO)
        \o when(Num(f.profile_pic) = 0, EXPL_PIC)
        \o when(Num(f.account_age_days) < RECENT_DAYS, EXPL_RECENT)
        \o when(UnusualRatio(Num(f.followers), Num(f.following)), EXPL_RATIO)
        \o found(1) \o found(2) \o found(3)

get_feature_explanation(f, bio) ==
    LET when(cond, text) == IF cond THEN <<text>> ELSE <<>>
        lowered == Lower(bio)
    IN  when(Num(f.username_digits) >= MANY_DIGITS, EXPL_DIGITS)
        \o when(Num(f.bio_length) < SHORT_BIO, EXPL_BIO)
        \o when(Num(f.profile_pic) = 0, EXPL_PIC)
        \o when(Num(f.account_age_days) < RECENT_DAYS, EXPL_RECENT)
        \o when(UnusualRatio(Num(f.followers), Num(f.following)), EXPL_RATIO)
        \o when(\E k \in 1..Len(suspicious_keywords) :
                    Contains(lowered, suspicious_keywords[k]), EXPL_KEYWORDS)

----------------------------------------------------------------------------
(* extract_features *)

\* One draw of np.random for each default of lines 182-190: randint(0, 1000),
\* randint(0, 2000), randint(0, 100), randint(1, 365), uniform(0, 0.1) and
\* uniform(0, 20).  dict.get evaluates its default argument, so every call of
\* extract_features draws all six, whether the key is present or not.
RandomDraws ==
    [followers : {0, 999}, following : {1999}, posts : {0, 99},
     account_age_days : {364}, engagement_rate : {9},
     posting_frequency : {19}]

\* the keys whose absence is filled with a draw
RandomKeys ==
    {"followers", "following", "posts", "account_age_days", "engagement_rate",
     "posting_frequency"}

NoFeatures == [absent |-> TRUE]

\* len(x) raises TypeError unless x is a str (of the JSON kinds)
HasLen(x) == x.t = "str"

\* posts always takes the default, whatever the record holds
PassThrough_default(account_data, key, default) ==
    IF key = "posts" THEN default ELSE Get(account_data, key, default)

\* account_data.get(key, default)
PassThrough(account_data, key, default) == Get(account_data, key, default)

\* 1 whenever the key is there
PicFlag_present(account_data) ==
    IF "profile_picture" \in DOMAIN account_data THEN 1 ELSE 0

\* 1 if account_data.get('profile_picture') else 0
PicFlag(account_data) ==
    IF Truthy(Get(account_data, "profile_picture", JNull)) THEN 1 ELSE 0

extract_features(account_data, rnd) ==
    LET username == Get(account_data, "username", JStr(<<>>))
        bio == Get(account_data, "bio", JStr(<<>>))
    IN  IF ~HasLen(username) \/ ~HasLen(bio)
        THEN [raised |-> TRUE, features |-> NoFeatures, bio |-> <<>>]
        ELSE [raised |-> FALSE,
              features |->
                [username_length |-> JInt(Len(username.v)),
                 username_digits |-> JInt(CountDigits(username.v)),
                 bio_length |-> JInt(Len(bio.v)),
                 profile_pic |-> JInt(PicFlag(account_data)),
                 followers |->
                    PassThrough(account_data, "followers", JInt(rnd.followers)),
                 following |->
                    PassThrough(account_data, "following", JInt(rnd.following)),
                 posts |-> PassThrough(account_data, "posts", JInt(rnd.posts)),
                 account_age_days |->
                    PassThrough(account_data, "account_age_days",
                                JInt(rnd.account_age_days)),
                 verified |-> PassThrough(account_data, "verified", JInt(0)),
                 engagement_rate |->
                    PassThrough(account_data, "engagement_rate",
                                JInt(rnd.engagement_rate)),
                 posting_frequency |->
                    PassThrough(account_data, "posting_frequency",
                                JInt(rnd.posting_frequency))],
              bio |-> bio.v]

\* lines 202-204: feature_columns, the columns of the training matrix
feature_columns ==
    <<"username_length", "username_digits", "bio_length", "profile_pic",
      "followers", "following", "posts", "account_age_days", "verified",
      "engagement_rate", "posting_frequency">>

\* the vector with followers and following in each other's place
FEATURE_ORDER_swapped ==
    <<"username_length", "username_digits", "bio_length", "profile_pic",
      "following", "followers", "posts", "account_age_days", "verified",
      "engagement_rate", "posting_frequency">>

\* the order of the feature vector built at lines 244-251
FEATURE_ORDER ==
    <<"username_length", "username_digits", "bio_length", "profile_pic",
      "followers", "following", "posts", "account_age_days", "verified",
      "engagement_rate", "posting_frequency">>

\* np.array([[...]]) followed by scaler.transform accepts numbers only
AllNumeric(f) == \A i \in 1..Len(FEATURE_ORDER) : IsNumeric(f[FEATURE_ORDER[i]])

\* lines 244-251: feature_vector = np.array([[features[...], ...]])
feature_vector(f) == [i \in 1..Len(FEATURE_ORDER) |-> f[FEATURE_ORDER[i]]]

----------------------------------------------------------------------------
(* The records the requests carry (request.json) *)

\* "user1234" (4 digits)
U_user1234 ==
    <<"u", "s", "e", "r", "1", "2", "3", "4">>

\* "abc123" (3 digits)
U_abc123 ==
    <<"a", "b", "c", "1", "2", "3">>

\* "instagram"
S_instagram ==
    <<"i", "n", "s", "t", "a", "g", "r", "a", "m">>

\* "" (the empty bio)
B_empty == <<>>

\* "Follow Back" (11 characters, a keyword in mixed case)
B_follow_back ==
    <<"F", "o", "l", "l", "o", "w", " ", "B", "a", "c", "k">>

\* "coffee lover daily!" (19 characters, no keyword)
B_19 ==
    <<"c", "o", "f", "f", "e", "e", " ", "l", "o", "v", "e", "r", " ", "d",
      "a", "i", "l", "y", "!">>

\* "coffee lover daily!!" (20 characters, no keyword)
B_20 ==
    <<"c", "o", "f", "f", "e", "e", " ", "l", "o", "v", "e", "r", " ", "d",
      "a", "i", "l", "y", "!", "!">>

\* "please DM for Collab today" (26 characters, a keyword inside)
B_long_keyword ==
    <<"p", "l", "e", "a", "s", "e", " ", "D", "M", " ", "f", "o", "r", " ",
      "C", "o", "l", "l", "a", "b", " ", "t", "o", "d", "a", "y">>

\* "follow  back 4 follow" (21 characters, near misses only)
B_near_miss ==
    <<"f", "o", "l", "l", "o", "w", " ", " ", "b", "a", "c", "k", " ", "4",
      " ", "f", "o", "l", "l", "o", "w">>

Usernames == {U_user1234, U_abc123}

Bios == {B_empty, B_follow_back, B_19, B_20, B_long_keyword, B_near_miss}

\* <<followers, following>>: ratio 0.01, exactly 0.1, 5.1, exactly 5,
\* following = 0, and an ordinary pair
FollowPairs == {<<1, 100>>, <<1, 10>>, <<51, 10>>, <<50, 10>>, <<7, 0>>, <<340, 210>>}

\* either side of `account_age_days < 30`
Ages == {29, 30}

FullRecord(username, bio, pic, age, pair) ==
    [platform |-> JStr(S_instagram), username |-> JStr(username),
     bio |-> JStr(bio), profile_picture |-> pic,
     followers |-> JInt(pair[1]), following |-> JInt(pair[2]),
     posts |-> JInt(87), account_age_days |-> JInt(age),
     verified |-> JBool(FALSE), engagement_rate |-> JInt(4),
     posting_frequency |-> JInt(2)]

\* records that supply every key extract_features reads
FullRecords ==
    {FullRecord(u, b, p, a, f) :
        u \in Usernames, b \in Bios, p \in {JBool(TRUE), JBool(FALSE)},
        a \in Ages, f \in FollowPairs}

\* the record of the repository's API example: platform, username and bio only
ExampleRecord ==
    [platform |-> JStr(S_instagram), username |-> JStr(U_abc123),
     bio |-> JStr(B_follow_back)]

\* a record under the attribute names of the specification's data model
DataModelRecord ==
    [platform |-> JStr(S_instagram), username |-> JStr(U_abc123),
     bio |-> JStr(B_20), profile_picture_present |-> JBool(TRUE),
     follower_count |-> JInt(340), following_count |-> JInt(210),
     post_count |-> JInt(87), account_age_days |-> JInt(900),
     verified |-> JBool(FALSE), engagement_rate |-> JInt(4),
     posting_frequency |-> JInt(2)]

Typical == FullRecord(U_user1234, B_empty, JBool(FALSE), 29, <<1, 100>>)

\* Typical without the keys in `absent`
Without(absent) == [k \in (DOMAIN Typical) \ absent |-> Typical[k]]

\* Typical with `key` set to `value`
With(key, value) == [k \in (DOMAIN Typical) \cup {key} |->
                        IF k = key THEN value ELSE Typical[k]]

\* records with keys absent, null, or of another JSON kind
PartialRecords ==
    {ExampleRecord, DataModelRecord,
     Without({"followers"}), Without({"account_age_days"}),
     Without({"bio"}), Without({"profile_picture"}),
     Without({"username"}), Without({"platform"}),
     With("username", JNull), With("bio", JNull), With("followers", JNull),
     With("profile_picture", JNull), With("profile_picture", JInt(1)),
     With("profile_picture", JStr(S_instagram)), With("verified", JInt(1))}

\* what the sequential host analyzes
\* "follow back dm for collab" (25 characters, two keywords)
B_two_keywords ==
    <<"f", "o", "l", "l", "o", "w", " ", "b", "a", "c", "k", " ", "d", "m",
      " ", "f", "o", "r", " ", "c", "o", "l", "l", "a", "b">>

\* a record whose only finding is the bio, which holds two keywords
TwoKeywordRecord ==
    FullRecord(U_abc123, B_two_keywords, JBool(TRUE), 30, <<340, 210>>)

CoreRecords == FullRecords \cup PartialRecords \cup {TwoKeywordRecord}

\* what the clients of the threaded server send
ServerRecords == {Typical, Without({"platform"})}

----------------------------------------------------------------------------
(* Threads and shared objects *)

\* training_thread of __main__; the request threads are 1..NumRequests
TRAINER == 0

Requests == 1..NumRequests

AllThreads == {TRAINER} \cup Requests

\* TfidfVectorizer() / StandardScaler() / RandomForestClassifier(): not fitted,
\* nobody inside fit
Unfitted == [fitted |-> FALSE, writers |-> {}]

\* what predict_proba can answer
Probs == {39999, MEDIUM_THRESHOLD, HIGH_THRESHOLD}

NoResult == [absent |-> TRUE]

NoBlockchain == [absent |-> TRUE]

NoData == [absent |-> TRUE]

detector == <<is_trained, tfidf_vectorizer, scaler, profile_classifier,
              classifiers, clf_memo>>

locals == <<data, saw_untrained, features, bio_text, fake_probability,
            analysis_result, blockchain_result>>

riskvars == <<risk_in, risk_out>>

trainlog == <<train_calls, entered_ready>>

synthvars == <<fake_data, real_data, df>>

readvars == <<record_call, records_out, stats_out>>

\* no frame returned yet
NoFrame == [absent |-> TRUE]

\* record_to_blockchain not called yet
NoCall == [n |-> 0]

\* no response sent yet
NoResponse == [absent |-> TRUE]

\* an error response that still carries the probability computed so far
ErrorResponse_partial(t, status, kind) ==
    [thread |-> t, status |-> status, error |-> kind, data |-> data[t],
     saw_untrained |-> saw_untrained[t],
     analysis |-> [fake_probability |-> fake_probability[t]],
     blockchain |-> NoBlockchain]

\* jsonify({'error': ...}), status
ErrorResponse(t, status, kind) ==
    [thread |-> t, status |-> status, error |-> kind, data |-> data[t],
     saw_untrained |-> saw_untrained[t], analysis |-> NoResult,
     blockchain |-> NoBlockchain]

\* An exception leaves the thread: analyze_account's `except Exception` turns it
\* into a 500 response; in training_thread it ends the thread.
Raises(t, kind) ==
    IF t = TRAINER
    THEN /\ pc' = [pc EXCEPT ![t] = "dead"]
         /\ UNCHANGED responses
    ELSE /\ pc' = [pc EXCEPT ![t] = "idle"]
         /\ responses' = [responses EXCEPT ![t] =
                            Append(@, ErrorResponse(t, 500, kind))]

\* other threads are inside fit() of this object
BeingWrittenByOthers(obj, t) == obj.writers \ {t} # {}

----------------------------------------------------------------------------
(* train_model, one step per statement that touches shared state *)

\* a train_model that clears the flag while it runs
TrainEnter_reset(t) ==
    /\ pc[t] = "t_enter"
    /\ train_calls' = train_calls + 1
    /\ entered_ready' = [entered_ready EXCEPT ![t] = is_trained]
    /\ is_trained' = FALSE
    /\ pc' = [pc EXCEPT ![t] = "t_vec"]
    /\ UNCHANGED <<tfidf_vectorizer, scaler, profile_classifier, classifiers,
                   clf_memo, threads, inbox, locals, fit_target, ledger,
                   responses, riskvars, synthvars, readvars>>

\* lines 196-208: log, generate_training_data, slice the frame
TrainEnter(t) ==
    /\ pc[t] = "t_enter"
    /\ train_calls' = train_calls + 1
    /\ entered_ready' = [entered_ready EXCEPT ![t] = is_trained]
    /\ pc' = [pc EXCEPT ![t] = "t_vec"]
    /\ UNCHANGED <<detector, threads, inbox, locals, fit_target, ledger,
                   responses, riskvars, synthvars, readvars>>

\* line 211: self.tfidf_vectorizer.fit_transform(X_text) begins
VecFitBegin(t) ==
    /\ pc[t] = "t_vec"
    /\ tfidf_vectorizer' =
          [tfidf_vectorizer EXCEPT !.writers = @ \cup {t}]
    /\ pc' = [pc EXCEPT ![t] = "t_vec_fit"]
    /\ UNCHANGED <<is_trained, scaler, profile_classifier, classifiers, clf_memo,
                   threads, inbox, locals, fit_target, trainlog, ledger,
                   responses, riskvars, synthvars, readvars>>

\* line 211 returns, or raises when another fit of the same object interfered
VecFitEnd(t) ==
    /\ pc[t] = "t_vec_fit"
    /\ \/ /\ tfidf_vectorizer' = [fitted |-> TRUE,
                                  writers |-> tfidf_vectorizer.writers \ {t}]
          /\ clf_memo' = <<>>
          /\ pc' = [pc EXCEPT ![t] = "t_scale"]
          /\ UNCHANGED responses
       \/ /\ BeingWrittenByOthers(tfidf_vectorizer, t)
          /\ tfidf_vectorizer' =
                [tfidf_vectorizer EXCEPT !.writers = @ \ {t}]
          /\ UNCHANGED clf_memo
          /\ Raises(t, "RaceError")
    /\ UNCHANGED <<is_trained, scaler, profile_classifier, classifiers,
                   threads, inbox, locals, fit_target, trainlog, ledger,
                   riskvars, synthvars, readvars>>

\* line 214: self.scaler.fit_transform(X_features) begins
ScaleFitBegin(t) ==
    /\ pc[t] = "t_scale"
    /\ scaler' = [scaler EXCEPT !.writers = @ \cup {t}]
    /\ pc' = [pc EXCEPT ![t] = "t_scale_fit"]
    /\ UNCHANGED <<is_trained, tfidf_vectorizer, profile_classifier, classifiers,
                   clf_memo, threads, inbox, locals, fit_target, trainlog,
                   ledger, responses, riskvars, synthvars, readvars>>

\* line 214 returns, or raises when another fit of the same object interfered
ScaleFitEnd(t) ==
    /\ pc[t] = "t_scale_fit"
    /\ \/ /\ scaler' = [fitted |-> TRUE, writers |-> scaler.writers \ {t}]
          /\ clf_memo' = <<>>
          /\ pc' = [pc EXCEPT ![t] = "t_new"]
          /\ UNCHANGED responses
       \/ /\ BeingWrittenByOthers(scaler, t)
          /\ scaler' = [scaler EXCEPT !.writers = @ \ {t}]
          /\ UNCHANGED clf_memo
          /\ Raises(t, "RaceError")
    /\ UNCHANGED <<is_trained, tfidf_vectorizer, profile_classifier, classifiers,
                   threads, inbox, locals, fit_target, trainlog, ledger,
                   riskvars, synthvars, readvars>>

\* lines 217-224: self.profile_classifier = RandomForestClassifier(...)
NewClassifier(t) ==
    /\ pc[t] = "t_new"
    /\ classifiers' = Append(classifiers, Unfitted)
    /\ profile_classifier' = Len(classifiers) + 1
    /\ clf_memo' = <<>>
    /\ pc' = [pc EXCEPT ![t] = "t_fit"]
    /\ UNCHANGED <<is_trained, tfidf_vectorizer, scaler, threads, inbox, locals,
                   fit_target, trainlog, ledger, responses, riskvars, synthvars, readvars>>

\* line 225: self.profile_classifier.fit(X_combined, y) begins, on whatever
\* object the attribute refers to now
ClfFitBegin(t) ==
    /\ pc[t] = "t_fit"
    /\ fit_target' = [fit_target EXCEPT ![t] = profile_classifier]
    /\ classifiers' =
          [classifiers EXCEPT ![profile_classifier].writers = @ \cup {t}]
    /\ pc' = [pc EXCEPT ![t] = "t_fit_run"]
    /\ UNCHANGED <<is_trained, tfidf_vectorizer, scaler, profile_classifier,
                   clf_memo, threads, inbox, locals, trainlog, ledger,
                   responses, riskvars, synthvars, readvars>>

\* line 225 returns, or raises when another fit of the same object interfered
ClfFitEnd(t) ==
    /\ pc[t] = "t_fit_run"
    /\ \/ /\ classifiers' =
                [classifiers EXCEPT ![fit_target[t]] =
                    [fitted |-> TRUE, writers |-> @.writers \ {t}]]
          /\ clf_memo' = <<>>
          /\ pc' = [pc EXCEPT ![t] = "t_flag"]
          /\ UNCHANGED responses
       \/ /\ BeingWrittenByOthers(classifiers[fit_target[t]], t)
          /\ classifiers' =
                [classifiers EXCEPT ![fit_target[t]].writers = @ \ {t}]
          /\ UNCHANGED clf_memo
          /\ Raises(t, "RaceError")
    /\ UNCHANGED <<is_trained, tfidf_vectorizer, scaler, profile_classifier,
                   threads, inbox, locals, fit_target, trainlog, ledger,
                   riskvars, synthvars, readvars>>

\* lines 227-233: self.is_trained = True, then the three joblib.dump calls,
\* which touch only files and may raise
TrainFinish(t) ==
    /\ pc[t] = "t_flag"
    /\ is_trained' = TRUE
    /\ \/ /\ pc' = [pc EXCEPT ![t] = IF t = TRAINER THEN "done" ELSE "p_extract"]
          /\ UNCHANGED responses
       \/ Raises(t, "IOError")
    /\ UNCHANGED <<tfidf_vectorizer, scaler, profile_classifier, classifiers,
                   clf_memo, threads, inbox, locals, fit_target, trainlog,
                   ledger, riskvars, synthvars, readvars>>

----------------------------------------------------------------------------
(* analyze_account and predict_fake_probability *)

\* the validation with username alone
required_fields_username == {"username"}

required_fields == {"platform", "username"}

\* lines 393-399: take the request, validate it
Receive(t) ==
    /\ t # TRAINER
    /\ pc[t] = "idle"
    /\ inbox[t] # <<>>
    /\ inbox' = [inbox EXCEPT ![t] = Tail(@)]
    /\ data' = [data EXCEPT ![t] = Head(inbox[t])]
    /\ saw_untrained' = [saw_untrained EXCEPT ![t] = FALSE]
    /\ features' = [features EXCEPT ![t] = NoFeatures]
    /\ bio_text' = [bio_text EXCEPT ![t] = <<>>]
    /\ fake_probability' = [fake_probability EXCEPT ![t] = 0]
    /\ analysis_result' = [analysis_result EXCEPT ![t] = NoResult]
    /\ blockchain_result' = [blockchain_result EXCEPT ![t] = NoBlockchain]
    /\ IF required_fields \subseteq DOMAIN Head(inbox[t])
       THEN /\ pc' = [pc EXCEPT ![t] = "p_check"]
            /\ UNCHANGED responses
       ELSE /\ pc' = pc
            /\ responses' =
                  [responses EXCEPT ![t] =
                      Append(@, [thread |-> t, status |-> 400,
                                 error |-> "MissingField",
                                 data |-> Head(inbox[t]), saw_untrained |-> FALSE,
                                 analysis |-> NoResult,
                                 blockchain |-> NoBlockchain])]
    /\ UNCHANGED <<detector, threads, fit_target, trainlog, ledger, riskvars, synthvars, readvars>>

\* lines 237-238: if not self.is_trained: self.train_model()
CheckTrained(t) ==
    /\ pc[t] = "p_check"
    /\ saw_untrained' = [saw_untrained EXCEPT ![t] = ~is_trained]
    /\ pc' = [pc EXCEPT ![t] = IF is_trained THEN "p_extract" ELSE "t_enter"]
    /\ UNCHANGED <<detector, threads, inbox, data, features, bio_text,
                   fake_probability, analysis_result, blockchain_result,
                   fit_target, trainlog, ledger, responses, riskvars, synthvars, readvars>>

\* lines 241-251: extract_features and the feature vector
Extract(t) ==
    /\ pc[t] = "p_extract"
    /\ \E rnd \in RandomDraws :
          LET got == extract_features(data[t], rnd)
          IN  IF got.raised
              THEN /\ Raises(t, "TypeError")
                   /\ UNCHANGED <<features, bio_text>>
              ELSE /\ features' = [features EXCEPT ![t] = got.features]
                   /\ bio_text' = [bio_text EXCEPT ![t] = got.bio]
                   /\ pc' = [pc EXCEPT ![t] = "p_scale"]
                   /\ UNCHANGED responses
    /\ UNCHANGED <<detector, threads, inbox, data, saw_untrained,
                   fake_probability, analysis_result, blockchain_result,
                   fit_target, trainlog, ledger, riskvars, synthvars, readvars>>

\* line 254: self.scaler.transform(feature_vector).  A vector holding None or a
\* str is refused; a transform during another thread's fit may find the scaler
\* reset and raise NotFittedError, or may get through.
Scale(t) ==
    /\ pc[t] = "p_scale"
    /\ \/ /\ ~AllNumeric(features[t])
          /\ Raises(t, "ValueError")
       \/ /\ AllNumeric(features[t])
          /\ ~scaler.fitted \/ BeingWrittenByOthers(scaler, t)
          /\ Raises(t, "NotFittedError")
       \/ /\ AllNumeric(features[t])
          /\ scaler.fitted
          /\ pc' = [pc EXCEPT ![t] = "p_text"]
          /\ UNCHANGED responses
    /\ UNCHANGED <<detector, threads, inbox, locals, fit_target, trainlog,
                   ledger, riskvars, synthvars, readvars>>

\* line 257: self.tfidf_vectorizer.transform([bio_text])
TextTransform(t) ==
    /\ pc[t] = "p_text"
    /\ \/ /\ ~tfidf_vectorizer.fitted \/ BeingWrittenByOthers(tfidf_vectorizer, t)
          /\ Raises(t, "NotFittedError")
       \/ /\ tfidf_vectorizer.fitted
          /\ pc' = [pc EXCEPT ![t] = "p_predict"]
          /\ UNCHANGED responses
    /\ UNCHANGED <<detector, threads, inbox, locals, fit_target, trainlog,
                   ledger, riskvars, synthvars, readvars>>

\* self.profile_classifier is a fitted object nobody is fitting
ClassifierStable ==
    /\ profile_classifier # 0
    /\ classifiers[profile_classifier].fitted
    /\ classifiers[profile_classifier].writers = {}

\* self.profile_classifier is an object somebody is fitting right now
ClassifierInFit ==
    /\ profile_classifier # 0
    /\ classifiers[profile_classifier].writers # {}

\* self.profile_classifier.predict_proba(X_combined), as the set of its possible
\* outcomes: a fitted forest is a function of its input (kept in clf_memo as it
\* is asked); an absent or fresh object raises; an object in the middle of
\* another thread's fit raises or answers anything.
PredictProba(t) ==
    LET key == <<features[t], bio_text[t]>>
        answer(p, memo) == [raised |-> FALSE, p |-> p, memo |-> memo]
    IN  (IF ~ClassifierStable
         THEN {[raised |-> TRUE, p |-> 0, memo |-> clf_memo]}
         ELSE IF key \in DOMAIN clf_memo
         THEN {answer(clf_memo[key], clf_memo)}
         ELSE {answer(p, (key :> p) @@ clf_memo) : p \in Probs})
        \cup
        (IF ClassifierInFit THEN {answer(p, clf_memo) : p \in Probs} ELSE {})

\* line 263: fake_probability = ...predict_proba(X_combined)[0][1]
Predict(t) ==
    /\ pc[t] = "p_predict"
    /\ \E got \in PredictProba(t) :
          /\ clf_memo' = got.memo
          /\ IF got.raised
             THEN /\ Raises(t, "NotFittedError")
                  /\ UNCHANGED fake_probability
             ELSE /\ fake_probability' = [fake_probability EXCEPT ![t] = got.p]
                  /\ pc' = [pc EXCEPT ![t] = "p_result"]
                  /\ UNCHANGED responses
    /\ UNCHANGED <<is_trained, tfidf_vectorizer, scaler, profile_classifier,
                   classifiers, threads, inbox, data, saw_untrained, features,
                   bio_text, analysis_result, blockchain_result, fit_target,
                   trainlog, ledger, riskvars, synthvars, readvars>>

Max(a, b) == IF a >= b THEN a ELSE b

\* lines 266-274: the explanation and the returned dict; line 271 asks
\* predict_proba a second time for the confidence
BuildResult(t) ==
    /\ pc[t] = "p_result"
    /\ \E got \in PredictProba(t) :
          /\ clf_memo' = got.memo
          /\ IF got.raised
             THEN /\ Raises(t, "NotFittedError")
                  /\ UNCHANGED analysis_result
             ELSE /\ analysis_result' =
                        [analysis_result EXCEPT ![t] =
                            [fake_probability |-> fake_probability[t],
                             risk_level |-> get_risk_level(fake_probability[t]),
                             confidence |-> Max(got.p, ProbOne - got.p),
                             features |-> features[t],
                             explanation |->
                                get_feature_explanation(features[t], bio_text[t])]]
                  /\ pc' = [pc EXCEPT ![t] = "a_ledger"]
                  /\ UNCHANGED responses
    /\ UNCHANGED <<is_trained, tfidf_vectorizer, scaler, profile_classifier,
                   classifiers, threads, inbox, data, saw_untrained, features,
                   bio_text, fake_probability, blockchain_result, fit_target,
                   trainlog, ledger, riskvars, synthvars, readvars>>

\* json.dumps(analysis_result['explanation'])
JsonDumps(x) == [json |-> x]

\* line 406 with the threshold of the risk tiers instead of its own
ShouldRecord_high(result) == result.fake_probability >= HIGH_THRESHOLD

\* line 406: if analysis_result['fake_probability'] >= 0.4
ShouldRecord(result) == result.fake_probability >= LEDGER_THRESHOLD

\* an INSERT that replaces the row of the same account when there is one
store_local_record_upsert(rows, row) ==
    IF \E i \in DOMAIN rows : rows[i].username = row.username
    THEN LET i == CHOOSE i \in DOMAIN rows : rows[i].username = row.username
         IN  [rows EXCEPT ![i] = row]
    ELSE Append(rows, row)

\* lines 81-103: store_local_record, INSERT INTO fake_account_reports (the id,
\* the tx_hash and the timestamp of the row are left out)
store_local_record(rows, row) == Append(rows, row)

\* a handler in which the exception of the ledger write reaches the except
\* clause of analyze_account
RecordAndRespond_raising(t) ==
    /\ pc[t] = "a_ledger"
    /\ \E stored \in BOOLEAN :
          LET outcome ==
                 IF ~ShouldRecord(analysis_result[t]) THEN NoBlockchain
                 ELSE IF stored THEN [success |-> TRUE]
                 ELSE [success |-> FALSE, error |-> "sqlite3.Error"]
          IN  /\ ShouldRecord(analysis_result[t]) \/ stored
              /\ ledger' =
                    IF ShouldRecord(analysis_result[t]) /\ stored
                    THEN store_local_record(ledger,
                                [platform |-> data[t]["platform"],
                                 username |-> data[t]["username"],
                                 risk_score |-> analysis_result[t].fake_probability,
                                 evidence |->
                                    JsonDumps(analysis_result[t].explanation)])
                    ELSE ledger
              /\ blockchain_result' = [blockchain_result EXCEPT ![t] = outcome]
              /\ responses' =
                    [responses EXCEPT ![t] =
                        Append(@, IF ShouldRecord(analysis_result[t]) /\ ~stored
                                  THEN ErrorResponse(t, 500, "sqlite3.Error")
                                  ELSE [thread |-> t, status |-> 200,
                                        error |-> "none", data |-> data[t],
                                        saw_untrained |-> saw_untrained[t],
                                        analysis |-> analysis_result[t],
                                        blockchain |-> outcome])]
    /\ pc' = [pc EXCEPT ![t] = "idle"]
    /\ UNCHANGED <<detector, threads, inbox, data, saw_untrained, features,
                   bio_text, fake_probability, analysis_result, fit_target,
                   trainlog, riskvars, synthvars, readvars>>

\* lines 404-422: record_to_blockchain when the score asks for it (the INSERT of
\* store_local_record may fail, which record_to_blockchain reports as
\* success = False), then the response
RecordAndRespond(t) ==
    /\ pc[t] = "a_ledger"
    /\ \E stored \in BOOLEAN :
          LET outcome ==
                 IF ~ShouldRecord(analysis_result[t]) THEN NoBlockchain
                 ELSE IF stored THEN [success |-> TRUE]
                 ELSE [success |-> FALSE, error |-> "sqlite3.Error"]
          IN  /\ ShouldRecord(analysis_result[t]) \/ stored
              /\ ledger' =
                    IF ShouldRecord(analysis_result[t]) /\ stored
                    THEN store_local_record(ledger,
                                [platform |-> data[t]["platform"],
                                 username |-> data[t]["username"],
                                 risk_score |-> analysis_result[t].fake_probability,
                                 evidence |->
                                    JsonDumps(analysis_result[t].explanation)])
                    ELSE ledger
              /\ blockchain_result' = [blockchain_result EXCEPT ![t] = outcome]
              /\ responses' =
                    [responses EXCEPT ![t] =
                        Append(@, [thread |-> t, status |-> 200, error |-> "none",
                                   data |-> data[t],
                                   saw_untrained |-> saw_untrained[t],
                                   analysis |-> analysis_result[t],
                                   blockchain |-> outcome])]
    /\ pc' = [pc EXCEPT ![t] = "idle"]
    /\ UNCHANGED <<detector, threads, inbox, data, saw_untrained, features,
                   bio_text, fake_probability, analysis_result, fit_target,
                   trainlog, riskvars, synthvars, readvars>>

----------------------------------------------------------------------------
(* get_risk_level applied to probabilities of its whole range *)

ProbSamples ==
    {0, 1, 20000, 39999, MEDIUM_THRESHOLD, 40001, 55000, 69999, HIGH_THRESHOLD,
     70001, 99999, ProbOne}

MapRisk ==
    /\ Len(risk_out) < Len(risk_in)
    /\ risk_out' = Append(risk_out, get_risk_level(risk_in[Len(risk_out) + 1]))
    /\ UNCHANGED <<detector, threads, pc, inbox, locals, fit_target, trainlog,
                   ledger, responses, risk_in, synthvars, readvars>>

----------------------------------------------------------------------------
(* BlockchainManager called directly, and the handlers that read the table *)

\* the arguments of the calls
CallRows ==
    [platform : {JStr(S_instagram)},
     username : {JStr(U_user1234), JStr(U_abc123)},
     risk_score : {MEDIUM_THRESHOLD, HIGH_THRESHOLD},
     evidence : {JsonDumps(<<EXPL_PIC>>)}]

\* lines 61-79: record_to_blockchain(platform, username, risk_score, evidence);
\* an exception of store_local_record becomes success = False
RecordToBlockchain ==
    /\ record_call.n < MaxRows
    /\ \E row \in CallRows, stored \in BOOLEAN :
          /\ ledger' = IF stored THEN store_local_record(ledger, row) ELSE ledger
          /\ record_call' =
                [n |-> record_call.n + 1, row |-> row,
                 result |-> IF stored THEN [success |-> TRUE]
                            ELSE [success |-> FALSE, error |-> "sqlite3.Error"]]
    /\ UNCHANGED <<detector, threads, pc, inbox, locals, fit_target, trainlog,
                   responses, riskvars, synthvars, records_out, stats_out>>

Min(a, b) == IF a <= b THEN a ELSE b

\* lines 465-498: SELECT * ... ORDER BY timestamp DESC LIMIT 50.  The table is
\* created by the first INSERT (or by the setup script), so with no row yet
\* the SELECT may fail with "no such table".  The rows are returned as the set
\* of their ids: timestamps have a resolution of one second, which leaves the
\* order of rows of the same second open.
GetBlockchainRecords ==
    /\ \/ /\ ledger = <<>>
          /\ records_out' = [status |-> 500, error |-> "sqlite3.OperationalError"]
       \/ \E shown \in SUBSET DOMAIN ledger :
             /\ Cardinality(shown) = Min(Len(ledger), RECORDS_LIMIT)
             /\ records_out' =
                   [status |-> 200, error |-> "none",
                    records |-> {[id |-> i, row |-> ledger[i]] : i \in shown},
                    total |-> Cardinality(shown)]
    /\ UNCHANGED <<detector, threads, pc, inbox, locals, fit_target, trainlog,
                   ledger, responses, riskvars, synthvars, record_call,
                   stats_out>>

\* what cursor.fetchone() returns when the result set is used up
None == [some |-> FALSE, cols |-> <<>>]

\* cursor.execute('SELECT COUNT(*) ...'): a result set of one row, one column
execute_count(rows) == <<[some |-> TRUE, cols |-> <<Len(rows)>>]>>

\* cursor.fetchone(): the next row and the cursor after it
fetchone(cursor) ==
    IF cursor = <<>> THEN [row |-> None, cursor |-> <<>>]
    ELSE [row |-> Head(cursor), cursor |-> Tail(cursor)]

\* lines 508 and 512: cursor.fetchone()[0] if cursor.fetchone() else 0.  The
\* condition is evaluated first and takes a row; the subscripted fetchone
\* takes the next one, and None[0] raises TypeError.
first_or_zero(cursor) ==
    LET test == fetchone(cursor)
        taken == fetchone(test.cursor)
    IN  IF ~test.row.some THEN [raised |-> FALSE, value |-> 0]
        ELSE IF ~taken.row.some THEN [raised |-> TRUE, value |-> 0]
        ELSE [raised |-> FALSE, value |-> taken.row.cols[1]]

\* line 511: WHERE risk_score >= 0.7
IsHighRisk(row) == row.risk_score >= STATS_HIGH

\* lines 518-521: np.random.randint(100, 500), (20, 100), (10, 50)
StatsNoise == [analyzed : {100, 499}, detected : {20, 99}, sent : {10, 49}]

\* lines 500-530: get_statistics, /api/stats
GetStatistics ==
    /\ \/ /\ ledger = <<>>
          /\ stats_out' = [status |-> 500, error |-> "sqlite3.OperationalError"]
       \/ LET total_reports == first_or_zero(execute_count(ledger))
              high_risk_accounts ==
                  first_or_zero(execute_count(SelectSeq(ledger, IsHighRisk)))
          IN  IF total_reports.raised \/ high_risk_accounts.raised
              THEN stats_out' = [status |-> 500, error |-> "TypeError"]
              ELSE \E noise \in StatsNoise :
                      stats_out' =
                         [status |-> 200, error |-> "none",
                          total_analyzed |-> total_reports.value + noise.analyzed,
                          fake_detected |->
                             high_risk_accounts.value + noise.detected,
                          blockchain_records |-> total_reports.value,
                          reports_sent |-> noise.sent]
    /\ UNCHANGED <<detector, threads, pc, inbox, locals, fit_target, trainlog,
                   ledger, responses, riskvars, synthvars, record_call,
                   records_out>>

----------------------------------------------------------------------------
(* generate_training_data *)

\* line 117: n_samples, an even number
n_samples == 2 * HalfSamples

\* as many iterations as there are samples
iterations_all == n_samples

\* lines 121 and 143: range(n_samples // 2)
iterations == n_samples \div 2

\* np.random.randint(lo, hi) and np.random.uniform(lo, hi) draw from [lo, hi);
\* a range is the pair <<lo, hi>>.  engagement_rate is in units of 0.001 and
\* posting_frequency in units of 0.1.  np.random.choice([0, 1]) is <<0, 2>>
\* and the constant 0 is <<0, 1>>.
Values(range) == range[1]..(range[2] - 1)

\* lines 123-133: the fake-account draws
fake_ranges ==
    [username_length |-> <<5, 15>>, username_digits |-> <<3, 8>>,
     bio_length |-> <<0, 50>>, profile_pic |-> <<0, 2>>,
     followers |-> <<0, 100>>, following |-> <<500, 5000>>,
     posts |-> <<0, 20>>, account_age_days |-> <<1, 90>>,
     verified |-> <<0, 1>>, engagement_rate |-> <<0, 20>>,
     posting_frequency |-> <<50, 500>>]

\* the genuine-account draws with account_age_days starting one day earlier
real_ranges_from_89 ==
    [username_length |-> <<6, 20>>, username_digits |-> <<0, 3>>,
     bio_length |-> <<20, 200>>, profile_pic |-> <<0, 2>>,
     followers |-> <<50, 2000>>, following |-> <<50, 1000>>,
     posts |-> <<10, 500>>, account_age_days |-> <<89, 2000>>,
     verified |-> <<0, 2>>, engagement_rate |-> <<10, 100>>,
     posting_frequency |-> <<5, 100>>]

\* lines 145-155: the genuine-account draws
real_ranges ==
    [username_length |-> <<6, 20>>, username_digits |-> <<0, 3>>,
     bio_length |-> <<20, 200>>, profile_pic |-> <<0, 2>>,
     followers |-> <<50, 2000>>, following |-> <<50, 1000>>,
     posts |-> <<10, 500>>, account_age_days |-> <<90, 2000>>,
     verified |-> <<0, 2>>, engagement_rate |-> <<10, 100>>,
     posting_frequency |-> <<5, 100>>]

\* two of the bio_text choices of lines 134-137: 'model' and ''
fake_bios == {<<"m", "o", "d", "e", "l">>, <<>>}

\* two of the bio_text choices of lines 156-162: 'family first', 'coffee lover'
real_bios ==
    {<<"f", "a", "m", "i", "l", "y", " ", "f", "i", "r", "s", "t">>,
     <<"c", "o", "f", "f", "e", "e", " ", "l", "o", "v", "e", "r">>}

\* the draws of one example: every feature at the low end of its range or
\* every feature at the high end
Corners == {"lo", "hi"}

Draw(range, corner) == IF corner = "lo" THEN range[1] ELSE range[2] - 1

\* one dict of the lists: the 11 features, the bio text and the label
Example(ranges, corner, bio, label) ==
    [username_length |-> Draw(ranges.username_length, corner),
     username_digits |-> Draw(ranges.username_digits, corner),
     bio_length |-> Draw(ranges.bio_length, corner),
     profile_pic |-> Draw(ranges.profile_pic, corner),
     followers |-> Draw(ranges.followers, corner),
     following |-> Draw(ranges.following, corner),
     posts |-> Draw(ranges.posts, corner),
     account_age_days |-> Draw(ranges.account_age_days, corner),
     verified |-> Draw(ranges.verified, corner),
     engagement_rate |-> Draw(ranges.engagement_rate, corner),
     posting_frequency |-> Draw(ranges.posting_frequency, corner),
     bio_text |-> bio,
     label |-> label]

\* lines 120-139: one iteration of the first loop, 'label': 1
AppendFake ==
    /\ df = NoFrame
    /\ Len(fake_data) < iterations
    /\ \E corner \in Corners, bio \in fake_bios :
          fake_data' = Append(fake_data, Example(fake_ranges, corner, bio, 1))
    /\ UNCHANGED <<detector, threads, pc, inbox, locals, fit_target, trainlog,
                   ledger, responses, riskvars, real_data, df, readvars>>

\* lines 142-164: one iteration of the second loop, 'label': 0
AppendReal ==
    /\ df = NoFrame
    /\ Len(fake_data) = iterations
    /\ Len(real_data) < iterations
    /\ \E corner \in Corners, bio \in real_bios :
          real_data' = Append(real_data, Example(real_ranges, corner, bio, 0))
    /\ UNCHANGED <<detector, threads, pc, inbox, locals, fit_target, trainlog,
                   ledger, responses, riskvars, fake_data, df, readvars>>

\* line 166: return pd.DataFrame(fake_data + real_data)
ReturnFrame ==
    /\ df = NoFrame
    /\ Len(fake_data) = iterations
    /\ Len(real_data) = iterations
    /\ df' = [rows |-> fake_data \o real_data]
    /\ UNCHANGED <<detector, threads, pc, inbox, locals, fit_target, trainlog,
                   ledger, responses, riskvars, fake_data, real_data, readvars>>

----------------------------------------------------------------------------
(* Specifications *)

InitDetector ==
    /\ is_trained = FALSE
    /\ tfidf_vectorizer = Unfitted
    /\ scaler = Unfitted
    /\ profile_classifier = 0
    /\ classifiers = <<>>
    /\ clf_memo = <<>>

InitLocals ==
    /\ data = [t \in AllThreads |-> NoData]
    /\ saw_untrained = [t \in AllThreads |-> FALSE]
    /\ features = [t \in AllThreads |-> NoFeatures]
    /\ bio_text = [t \in AllThreads |-> <<>>]
    /\ fake_probability = [t \in AllThreads |-> 0]
    /\ analysis_result = [t \in AllThreads |-> NoResult]
    /\ blockchain_result = [t \in AllThreads |-> NoBlockchain]
    /\ fit_target = [t \in AllThreads |-> 0]
    /\ train_calls = 0
    /\ entered_ready = [t \in AllThreads |-> FALSE]
    /\ ledger = <<>>
    /\ responses = [t \in AllThreads |-> <<>>]
    /\ fake_data = <<>>
    /\ real_data = <<>>
    /\ df = NoFrame
    /\ record_call = NoCall
    /\ records_out = NoResponse
    /\ stats_out = NoResponse

\* python backend_server.py: training_thread is started, then the threaded
\* development server handles one request per request thread
Init ==
    /\ InitDetector
    /\ InitLocals
    /\ threads = AllThreads
    /\ pc = [t \in AllThreads |-> IF t = TRAINER THEN "t_enter" ELSE "idle"]
    /\ \E sent \in [Requests -> ServerRecords] :
          inbox = [t \in AllThreads |-> IF t = TRAINER THEN <<>> ELSE <<sent[t]>>]
    /\ risk_in = <<>>
    /\ risk_out = <<>>

\* the module imported by a single-threaded host (no __main__, no
\* training_thread), which analyzes one record MaxCalls times
InitCore ==
    /\ InitDetector
    /\ InitLocals
    /\ threads = {1}
    /\ pc = [t \in AllThreads |-> IF t = 1 THEN "idle" ELSE "absent"]
    /\ \E d \in CoreRecords :
          inbox = [t \in AllThreads |->
                      IF t = 1 THEN [i \in 1..MaxCalls |-> d] ELSE <<>>]
    /\ risk_in = <<>>
    /\ risk_out = <<>>

\* get_risk_level alone, on two probabilities
InitRisk ==
    /\ InitDetector
    /\ InitLocals
    /\ threads = {}
    /\ pc = [t \in AllThreads |-> "absent"]
    /\ inbox = [t \in AllThreads |-> <<>>]
    /\ risk_in \in ProbSamples \X ProbSamples
    /\ risk_out = <<>>

\* the objects as constructed at import, no thread running
InitAlone ==
    /\ InitDetector
    /\ InitLocals
    /\ threads = {}
    /\ pc = [t \in AllThreads |-> "absent"]
    /\ inbox = [t \in AllThreads |-> <<>>]
    /\ risk_in = <<>>
    /\ risk_out = <<>>

Next ==
    \/ \E t \in threads : TrainEnter(t)
    \/ \E t \in threads : VecFitBegin(t)
    \/ \E t \in threads : VecFitEnd(t)
    \/ \E t \in threads : ScaleFitBegin(t)
    \/ \E t \in threads : ScaleFitEnd(t)
    \/ \E t \in threads : NewClassifier(t)
    \/ \E t \in threads : ClfFitBegin(t)
    \/ \E t \in threads : ClfFitEnd(t)
    \/ \E t \in threads : TrainFinish(t)
    \/ \E t \in threads : Receive(t)
    \/ \E t \in threads : CheckTrained(t)
    \/ \E t \in threads : Extract(t)
    \/ \E t \in threads : Scale(t)
    \/ \E t \in threads : TextTransform(t)
    \/ \E t \in threads : Predict(t)
    \/ \E t \in threads : BuildResult(t)
    \/ \E t \in threads : RecordAndRespond(t)

NextRisk == MapRisk

Spec == Init /\ [][Next]_vars

SpecCore == InitCore /\ [][Next]_vars

SpecRisk == InitRisk /\ [][NextRisk]_vars

\* python backend_server.py with one client that sends the same record MaxCalls
\* times, each request after the response to the one before
InitSerial ==
    /\ InitDetector
    /\ InitLocals
    /\ threads = {TRAINER, 1}
    /\ pc = [t \in AllThreads |->
                IF t = TRAINER THEN "t_enter"
                ELSE IF t = 1 THEN "idle" ELSE "absent"]
    /\ inbox = [t \in AllThreads |->
                   IF t = 1 THEN [i \in 1..MaxCalls |-> Typical] ELSE <<>>]
    /\ risk_in = <<>>
    /\ risk_out = <<>>

SpecSerial == InitSerial /\ [][Next]_vars

\* generate_training_data called once, no server around it
NextData ==
    \/ AppendFake
    \/ AppendReal
    \/ ReturnFrame

SpecData == InitAlone /\ [][NextData]_vars

\* the ledger written by direct calls and read by the two GET handlers
NextLedger ==
    \/ RecordToBlockchain
    \/ GetBlockchainRecords
    \/ GetStatistics

SpecLedger == InitAlone /\ [][NextLedger]_vars

----------------------------------------------------------------------------
(* Claims about the training lifecycle, under Spec *)

\* the positions inside train_model
TrainPcs ==
    {"t_vec", "t_vec_fit", "t_scale", "t_scale_fit", "t_new", "t_fit",
     "t_fit_run", "t_flag"}

\* the positions of predict_fake_probability after line 238
ScoringPcs == {"p_extract", "p_scale", "p_text", "p_predict", "p_result"}

InTraining == {t \in threads : pc[t] \in TrainPcs}

\* C1: exactly one training pass per process lifetime: in every interleaving of
\* the training thread and the first analyze requests, train_model is entered
\* at most once and two training runs never overlap.
C1_OneTrainingPass ==
    /\ train_calls <= 1
    /\ Cardinality(InTraining) <= 1

\* C2: once is_trained is true, the vectorizer, the scaler and the classifier
\* are never mutated again: no step taken in Ready changes any of them, and no
\* thread about to transform or predict in Ready finds another thread inside
\* the object's fit.
C2_ReadyArtifactsFrozen ==
    [][is_trained =>
          /\ UNCHANGED <<tfidf_vectorizer, scaler, profile_classifier, classifiers>>
          /\ \A t \in threads :
                /\ pc[t] = "p_scale" => ~BeingWrittenByOthers(scaler, t)
                /\ pc[t] = "p_text" => ~BeingWrittenByOthers(tfidf_vectorizer, t)
                /\ pc[t] \in {"p_predict", "p_result"} =>
                      ~ClassifierInFit]_vars

\* C3: analyze invoked while Untrained trains in the calling request and then
\* returns a ScoringResult: the request scores only once training has
\* completed, and its response is a result, never a not-trained error.
C3_UntrainedAnalyzeScores ==
    /\ \A t \in threads :
          saw_untrained[t] /\ pc[t] \in ScoringPcs => is_trained
    /\ \A t \in Requests : \A i \in DOMAIN responses[t] :
          responses[t][i].saw_untrained =>
              responses[t][i].error # "NotFittedError"

\* C4: train() is a no-op when the model is already Ready: a train_model call
\* entered while is_trained is true fits nothing and replaces nothing.
C4_TrainInReadyIsNoOp ==
    \A t \in threads :
        entered_ready[t] =>
            pc[t] \notin {"t_vec_fit", "t_scale", "t_scale_fit", "t_new", "t_fit",
                          "t_fit_run", "t_flag"}

----------------------------------------------------------------------------
(* Claims about the risk tiers and the ledger *)

TierRank(tier) == CASE tier = "low" -> 0 [] tier = "medium" -> 1 [] tier = "high" -> 2

\* C5: the risk mapper maps every probability to exactly one tier, high from
\* 0.7, medium from 0.4 to below 0.7, low below 0.4, so the tier never
\* decreases as the probability grows; 0.4 is medium and 0.7 is high.
C5_RiskTiers ==
    /\ \A i \in DOMAIN risk_out :
          /\ risk_out[i] \in {"low", "medium", "high"}
          /\ risk_out[i] = "high" <=> risk_in[i] >= 70000
          /\ risk_out[i] = "medium" <=> (risk_in[i] >= 40000 /\ risk_in[i] < 70000)
          /\ risk_out[i] = "low" <=> risk_in[i] < 40000
    /\ \A i, j \in DOMAIN risk_out :
          risk_in[i] <= risk_in[j] => TierRank(risk_out[i]) <= TierRank(risk_out[j])

\* both boundaries mapped: 0.4 to medium and 0.7 to high
C5_Witness == risk_in = <<40000, 70000>> /\ risk_out = <<"medium", "high">>

AllResponses ==
    UNION {{responses[t][i] : i \in DOMAIN responses[t]} : t \in Requests}

Scored == {r \in AllResponses : r.status = 200}

Invoked(r) == r.blockchain # NoBlockchain

----------------------------------------------------------------------------
(* Claims about the scoring of one record, under SpecCore *)

SameScore(x, y) ==
    /\ x.fake_probability = y.fake_probability
    /\ x.risk_level = y.risk_level
    /\ x.confidence = y.confidence
    /\ x.explanation = y.explanation

\* C7 as claimed: two analyses of an identical record with no retrain between
\* them return identical fake_probability, risk_level, confidence and
\* explanation, for every record, also one that omits optional fields.
C7_Idempotent ==
    \A r1, r2 \in Scored : r1.data = r2.data => SameScore(r1.analysis, r2.analysis)

\* C7, amended: the same for every record that supplies followers, following,
\* posts, account_age_days, engagement_rate and posting_frequency, the six
\* fields extract_features otherwise fills with a fresh random draw.
C7_IdempotentWhenSupplied ==
    \A r1, r2 \in Scored :
        r1.data = r2.data /\ RandomKeys \subseteq DOMAIN r1.data =>
            SameScore(r1.analysis, r2.analysis)

\* the same fully supplied record scored twice
C7_Witness ==
    \E t \in Requests :
        /\ Len(responses[t]) = MaxCalls
        /\ \A i \in DOMAIN responses[t] :
              /\ responses[t][i].status = 200
              /\ responses[t][i].data = responses[t][1].data
              /\ RandomKeys \subseteq DOMAIN responses[t][i].data

RULE_ORDER ==
    <<"Username contains many digits", "Bio is very short or empty",
      "No profile picture", "Recently created account",
      "Unusual follower-to-following ratio", "Bio contains suspicious keywords">>

\* the phrase occurs in the bio, letter case ignored
Mentions(bio, phrase) ==
    \E i \in 1..Len(bio) :
        /\ i + Len(phrase) - 1 <= Len(bio)
        /\ \A j \in 1..Len(phrase) : LowerChar(bio[i + j - 1]) = phrase[j]

\* the trigger of each rule as the claim states it
Trigger(rule, f, bio) ==
    CASE rule = RULE_ORDER[1] -> Num(f.username_digits) >= 4
      [] rule = RULE_ORDER[2] -> Len(bio) < 20
      [] rule = RULE_ORDER[3] -> Num(f.profile_pic) = 0
      [] rule = RULE_ORDER[4] -> Num(f.account_age_days) < 30
      [] rule = RULE_ORDER[5] ->
            /\ Num(f.following) > 0
            /\ \/ Num(f.followers) > 5 * Num(f.following)
               \/ 10 * Num(f.followers) < Num(f.following)
      [] rule = RULE_ORDER[6] ->
            \E k \in DOMAIN suspicious_keywords : Mentions(bio, suspicious_keywords[k])

\* C8: the explanation is the fixed rule order restricted to the rules whose
\* trigger holds (digits >= 4; bio length < 20; no picture; age < 30;
\* following > 0 and followers/following > 5 or < 0.1; a suspicious phrase in
\* the bio, case-insensitively); with following = 0 the ratio rule stays out
\* and the analysis still succeeds.
C8_ExplanationRules ==
    \A r \in Scored :
        LET f == r.analysis.features
            bio == Get(r.data, "bio", JStr(<<>>)).v
            Holds(rule) == Trigger(rule, f, bio)
        IN  /\ r.analysis.explanation = SelectSeq(RULE_ORDER, Holds)
            /\ Num(f.following) = 0 =>
                  \A k \in DOMAIN r.analysis.explanation :
                      r.analysis.explanation[k] # RULE_ORDER[5]

\* the record of the specification's ordering example: the first five rules
C8_Witness ==
    \E r \in Scored :
        /\ r.data = Typical
        /\ r.analysis.explanation = SubSeq(RULE_ORDER, 1, 5)

FeatureNames == {FEATURE_ORDER[i] : i \in DOMAIN FEATURE_ORDER}

AfterExtract == {"p_scale", "p_text", "p_predict", "p_result", "a_ledger"}

\* C9: extract is total: for every record, also one with fields absent or
\* null, it returns the 11 named numeric features and a string bio and never
\* raises.
C9_ExtractTotal ==
    /\ \A r \in AllResponses : r.error # "TypeError"
    /\ \A t \in threads :
          pc[t] = "p_scale" =>
              /\ DOMAIN features[t] = FeatureNames
              /\ AllNumeric(features[t])

DataModelKeys ==
    {"follower_count", "following_count", "post_count", "account_age_days",
     "profile_picture_present"}

CodeKeys ==
    {"followers", "following", "posts", "account_age_days", "profile_picture"}

\* C10 as claimed: a record that supplies follower_count, following_count,
\* post_count, account_age_days and profile_picture_present gets exactly those
\* values in the features, no random default.
C10_DataModelNamesPassThrough ==
    \A t \in threads :
        pc[t] \in AfterExtract /\ DataModelKeys \subseteq DOMAIN data[t] =>
            /\ features[t].followers = data[t]["follower_count"]
            /\ features[t].following = data[t]["following_count"]
            /\ features[t].posts = data[t]["post_count"]
            /\ features[t].account_age_days = data[t]["account_age_days"]
            /\ Num(features[t].profile_pic) =
                  IF Truthy(data[t]["profile_picture_present"]) THEN 1 ELSE 0

\* C10, amended: a record that supplies followers, following, posts,
\* account_age_days and profile_picture (the keys extract_features reads) gets
\* the four numbers unchanged and profile_pic = 1 exactly when profile_picture
\* is truthy; no random default replaces them.
C10_CodeKeysPassThrough ==
    \A t \in threads :
        pc[t] \in AfterExtract /\ CodeKeys \subseteq DOMAIN data[t] =>
            /\ features[t].followers = data[t]["followers"]
            /\ features[t].following = data[t]["following"]
            /\ features[t].posts = data[t]["posts"]
            /\ features[t].account_age_days = data[t]["account_age_days"]
            /\ Num(features[t].profile_pic) =
                  IF Truthy(data[t]["profile_picture"]) THEN 1 ELSE 0

\* a supplied pair outside the random defaults' reach of coincidence, with a
\* picture that is supplied and false
C10_Witness ==
    \E t \in threads :
        /\ pc[t] = "p_scale"
        /\ CodeKeys \subseteq DOMAIN data[t]
        /\ data[t]["profile_picture"] = JBool(FALSE)
        /\ features[t].followers = JInt(340)
        /\ features[t].following = JInt(210)

----------------------------------------------------------------------------
(* Claims about results, fitted artifacts and the lifecycle *)

ResultFields ==
    {"fake_probability", "risk_level", "confidence", "features", "explanation"}

\* all five fields of a scoring result, each holding a value of its kind
Complete(a) ==
    /\ DOMAIN a = ResultFields
    /\ a.fake_probability \in 0..100000
    /\ a.risk_level \in {"low", "medium", "high"}
    /\ a.confidence \in 0..100000
    /\ DOMAIN a.features = FeatureNames
    /\ DOMAIN a.explanation = 1..Len(a.explanation)

\* C11: analyze never returns a partial result: a call either returns all five
\* fields (fake_probability, risk_level, confidence, features, explanation)
\* populated, or fails as a whole with an error and no result field.
C11_NoPartialResult ==
    /\ \A r \in AllResponses :
          IF r.status = 200
          THEN r.error = "none" /\ Complete(r.analysis)
          ELSE r.error # "none" /\ r.analysis = NoResult
    /\ \A t \in threads :
          analysis_result[t] = NoResult \/ Complete(analysis_result[t])

\* the probability was computed, the second predict_proba raised, and the
\* response carries the error alone
C11_Witness ==
    \E t \in Requests :
        /\ pc[t] = "idle"
        /\ fake_probability[t] \in Probs
        /\ analysis_result[t] = NoResult
        /\ \E i \in DOMAIN responses[t] :
              /\ responses[t][i].status = 500
              /\ responses[t][i].error = "NotFittedError"
              /\ responses[t][i].analysis = NoResult

\* C12: every transform or predict of an analyze call comes after a completed
\* fit of the vectorizer, the scaler and the classifier: is_trained implies
\* that all three are fitted, and no call scores with an unfitted or absent
\* artifact.
C12_FittedBeforeUse ==
    /\ is_trained =>
          /\ tfidf_vectorizer.fitted
          /\ scaler.fitted
          /\ profile_classifier # 0
          /\ classifiers[profile_classifier].fitted
    /\ \A t \in threads :
          /\ pc[t] = "p_text" => scaler.fitted
          /\ pc[t] = "p_predict" => tfidf_vectorizer.fitted
          /\ pc[t] \in {"p_predict", "p_result"} =>
                profile_classifier # 0 /\ classifiers[profile_classifier].fitted

\* C13: the lifecycle only moves forward: no step sets is_trained back to
\* false, a training run included.
C13_ForwardOnly == [][is_trained => is_trained']_vars

\* a training run at work on a model that is Ready, the flag still true
C13_Witness == is_trained /\ \E t \in threads : pc[t] \in TrainPcs

\* C14: a training failure is never retried automatically: once a training
\* pass of a request has raised, no later analyze call is inside another
\* training pass.
C14_NoRetryAfterFailure ==
    \A t \in Requests :
        (\E i \in DOMAIN responses[t] : responses[t][i].error = "RaceError")
            => pc[t] \notin TrainPcs

\* C15: the feature vector built at inference has the 11 fields of the
\* training columns in their order: username_length, username_digits,
\* bio_length, profile_pic, followers, following, posts, account_age_days,
\* verified, engagement_rate, posting_frequency.
C15_VectorMatchesTrainingColumns ==
    /\ feature_columns =
          <<"username_length", "username_digits", "bio_length", "profile_pic",
            "followers", "following", "posts", "account_age_days", "verified",
            "engagement_rate", "posting_frequency">>
    /\ \A t \in threads :
          pc[t] \in AfterExtract =>
              LET v == feature_vector(features[t])
              IN  /\ Len(v) = 11
                  /\ \A i \in 1..11 : v[i] = features[t][feature_columns[i]]

\* a vector that went through the scaler, followers and following different
C15_Witness ==
    \E t \in threads :
        /\ pc[t] = "p_text"
        /\ features[t].followers = JInt(1)
        /\ features[t].following = JInt(100)

\* C16: each rule contributes at most one string: the explanation has no
\* duplicates and at most six entries, and it is empty, with the analysis
\* succeeding, exactly when no rule's trigger holds.
C16_OneStringPerRule ==
    \A r \in Scored :
        LET e == r.analysis.explanation
            f == r.analysis.features
            bio == Get(r.data, "bio", JStr(<<>>)).v
        IN  /\ Len(e) <= 6
            /\ \A i, j \in DOMAIN e : e[i] = e[j] => i = j
            /\ e = <<>> <=>
                  \A k \in DOMAIN RULE_ORDER : ~Trigger(RULE_ORDER[k], f, bio)

\* an analysis that succeeded with the empty explanation
C16_Witness ==
    \E r \in Scored : r.analysis.explanation = <<>> /\ r.status = 200

----------------------------------------------------------------------------
(* Claims about the request validation *)

Lacks(d) == ~({"platform", "username"} \subseteq DOMAIN d)

\* C19: a request whose payload lacks platform or username is answered with
\* an error before the core is called: the step that takes it appends a 400
\* response and leaves the model, the training count and the ledger as they
\* were, and the request never trains or scores.
C19_MissingFieldRejected ==
    /\ [](\A t \in Requests :
             data[t] # NoData /\ Lacks(data[t]) =>
                 pc[t] = "idle" /\ features[t] = NoFeatures)
    /\ [][\A t \in Requests :
             (pc[t] = "idle" /\ inbox'[t] # inbox[t] /\ Lacks(Head(inbox[t]))) =>
                 /\ Len(responses'[t]) = Len(responses[t]) + 1
                 /\ responses'[t][Len(responses'[t])].status = 400
                 /\ responses'[t][Len(responses'[t])].analysis = NoResult
                 /\ pc'[t] = "idle"
                 /\ UNCHANGED <<detector, train_calls, ledger>>]_vars

\* the rejected request, answered and back to idle with nothing extracted
C19_Witness ==
    \E t \in Requests :
        /\ Len(responses[t]) = 1
        /\ responses[t][1].status = 400
        /\ Lacks(responses[t][1].data)
        /\ pc[t] = "idle"
        /\ ledger = <<>>

----------------------------------------------------------------------------
(* Claims about the synthetic training data, under SpecData *)

NumericFeatures == {feature_columns[i] : i \in DOMAIN feature_columns}

Drawn(list) == {list[i] : i \in DOMAIN list}

\* no value drawn for an example of one class lies in the range the other
\* class draws that feature from
Apart(k) ==
    /\ \A e \in Drawn(fake_data) : e[k] \notin Values(real_ranges[k])
    /\ \A e \in Drawn(real_data) : e[k] \notin Values(fake_ranges[k])

\* the two ranges of the feature share a value
Overlap(k) ==
    /\ fake_ranges[k][1] < real_ranges[k][2]
    /\ real_ranges[k][1] < fake_ranges[k][2]

\* C17 as claimed: for every numeric feature the range of the fake-account
\* examples is disjoint from the range of the genuine-account examples.
C17_AllRangesDisjoint == \A k \in NumericFeatures : Apart(k)

\* C17, amended: the two ranges are disjoint for username_digits and for
\* account_age_days; for each of the other nine features they overlap.
C17_DigitsAndAgeDisjoint ==
    /\ \A k \in {"username_digits", "account_age_days"} :
          Apart(k) /\ ~Overlap(k)
    /\ \A k \in NumericFeatures \ {"username_digits", "account_age_days"} :
          Overlap(k)

\* the oldest fake account (89 days) next to the youngest genuine one (90)
C17_Witness ==
    /\ df # NoFrame
    /\ \E e \in Drawn(fake_data) : e.account_age_days = 89 /\ e.username_digits = 7
    /\ \E e \in Drawn(real_data) : e.account_age_days = 90 /\ e.username_digits = 0

Count(list, label) == Cardinality({i \in DOMAIN list : list[i].label = label})

\* C18: the returned data holds n examples, n/2 labelled fake (1) and n/2
\* labelled real (0); every example of the fake list has label 1 and every
\* example of the genuine list label 0.
C18_HalfFakeHalfReal ==
    /\ \A e \in Drawn(fake_data) : e.label = 1
    /\ \A e \in Drawn(real_data) : e.label = 0
    /\ Len(fake_data) * 2 <= n_samples
    /\ Len(real_data) * 2 <= n_samples
    /\ df # NoFrame =>
          /\ Len(df.rows) = n_samples
          /\ Count(df.rows, 1) * 2 = n_samples
          /\ Count(df.rows, 0) * 2 = n_samples
          /\ df.rows = fake_data \o real_data

\* the frame was returned
C18_Witness ==
    /\ df # NoFrame
    /\ Len(df.rows) = 2 * HalfSamples
    /\ Count(df.rows, 1) = HalfSamples

----------------------------------------------------------------------------
(* Claims about the ledger, under SpecLedger *)

IsPrefix(a, b) == Len(a) <= Len(b) /\ SubSeq(b, 1, Len(a)) = a

\* C20: the ledger is append-only: a successful record_to_blockchain call adds
\* exactly one row with the given platform, username, risk score and
\* evidence, and no step updates or deletes a row, so the row count never
\* decreases.
C20_AppendOnly ==
    [][/\ IsPrefix(ledger, ledger')
       /\ Len(ledger') >= Len(ledger)
       /\ (record_call' # record_call /\ record_call'.result.success) =>
              /\ Len(ledger') = Len(ledger) + 1
              /\ ledger'[Len(ledger')] = record_call'.row]_vars

\* two rows written, then both handlers have read the table and the rows are
\* still the two that were written
C20_Witness ==
    /\ Len(ledger) = 2
    /\ record_call.n = 2
    /\ ledger[2] = record_call.row
    /\ records_out # NoResponse
    /\ records_out.status = 200
    /\ records_out.total = 2
    /\ stats_out # NoResponse

\* C21: a failed ledger write does not fail the analysis: when
\* record_to_blockchain fails for an analysis with fake_probability >= 0.4,
\* the response is still the complete analysis, with a blockchain part of
\* success = false and an error.
C21_LedgerFailureKeepsAnalysis ==
    /\ \A r \in AllResponses : r.error # "sqlite3.Error"
    /\ \A r \in AllResponses :
          (r.blockchain # NoBlockchain /\ ~r.blockchain.success) =>
              /\ r.status = 200
              /\ Complete(r.analysis)
              /\ r.analysis.fake_probability >= 40000
              /\ "error" \in DOMAIN r.blockchain
    /\ \A t \in Requests :
          Len(ledger) >=
             Cardinality({i \in DOMAIN responses[t] :
                             /\ responses[t][i].blockchain # NoBlockchain
                             /\ responses[t][i].blockchain.success})

\* a high-risk analysis answered in full although its row was not written
C21_Witness ==
    \E r \in AllResponses :
        /\ r.status = 200
        /\ r.analysis.fake_probability = 70000
        /\ r.blockchain # NoBlockchain
        /\ ~r.blockchain.success
        /\ ledger = <<>>

\* C22: the statistics operation answers successfully with blockchain_records
\* equal to the number of rows in the table, for every content of the table,
\* the empty table included (the table exists).
C22_StatsCountsRows ==
    [][(stats_out' # stats_out
          /\ stats_out'.error # "sqlite3.OperationalError") =>
             /\ stats_out'.status = 200
             /\ stats_out'.blockchain_records = Len(ledger)]_vars

====
